---- MODULE Spec2Model ----
(***************************************************************************)
(* Session lifecycle and partner matching of the coworking backend         *)
(* (src/backend/server.py).                                                *)
(*                                                                         *)
(* The system of record is the MongoDB collection db.sessions, modelled as *)
(* the sequence `sessions` of documents in insertion order.  Every request *)
(* runs its handler as a coroutine; a coroutine gives up control only at   *)
(* an `await`, so each awaited store or provider call is one atomic step   *)
(* and the local computation up to the next await belongs to that step.    *)
(* Call number p lives in proc[p]; calls are numbered in order of arrival. *)
(* A call that has returned keeps no state: `last` is the response that    *)
(* the step just taken has sent (NoResponse when it sent none), and        *)
(* `joined` records the joins answered with success so far (a history      *)
(* variable), as `posted` records the room-creation requests sent to the   *)
(* provider so far.                                                        *)
(* The arrival of a request (routing, authentication) touches no session   *)
(* state, so it is part of the step of the handler's first store call.     *)
(*                                                                         *)
(* Not modelled: users, password hashing and tokens (the caller is the     *)
(* authenticated user id that get_current_user yields), and the title and  *)
(* description fields, which every handler passes through untouched.       *)
(***************************************************************************)
EXTENDS Integers, Sequences, FiniteSets, Bags, TLC

\* ------------------------------------------------------------------ bounds
MaxCalls == 3
MaxSessions == 2
MaxTime == 1

\* ------------------------------------------------------- program constants
HTTP_200_OK == 200
HTTP_400_BAD_REQUEST == 400
HTTP_403_FORBIDDEN == 403
HTTP_404_NOT_FOUND == 404
OwnedLimit == 100
AvailableLimit == 50
HourSeconds == 3600

\* -------------------------------------------------------------- vocabulary
None == "None"
Users == {"a", "b", "c"}
Times == 0..MaxTime
\* uuid4() of the n-th Session constructed: a fresh value each time.
Uuids == <<"s1", "s2", "s3", "s4">>
\* The values a client puts in the place of {session_id}.
PathIds == {"s1", "s2", "available"}
ProviderUrls == {"r1", "r2"}
SCHEDULED == "scheduled"

DetailNotFound == "Session not found"
DetailHasPartner == "Session already has a partner"
DetailOwnSession == "Cannot join your own session"
DetailNoView == "Not authorized to view this session"
DetailNoFeedback == "Not authorized to provide feedback for this session"

\* SessionFeedback.dict(); NoEntry stands for a role without an entry.
NoEntry == [rating |-> 0, comment |-> None]
FeedbackInputs == {[rating |-> 5, comment |-> None], [rating |-> 4, comment |-> "ok"]}
\* feedback = None (and {}) is the mapping without entries.
NoFeedback == [host |-> NoEntry, partner |-> NoEntry]

\* SessionCreate: the request body of create.
CreateInputs == {[start_time |-> s, end_time |-> s + 1] : s \in Times}

\* The value of find_one that found nothing.
NoDoc == [id |-> None, host_id |-> None, partner_id |-> None, room_url |-> None,
          status |-> None, start_time |-> 0, end_time |-> 0, created_at |-> 0,
          feedback |-> NoFeedback]

VARIABLES sessions, proc, last, joined, posted, now, DAILY_API_KEY

vars == <<sessions, proc, last, joined, posted, now, DAILY_API_KEY>>

Procs == 1..MaxCalls

NoRequest == [method |-> "none", path |-> <<>>]

IdleProc == [op |-> "none", pc |-> "idle", req |-> NoRequest, caller |-> None,
             sid |-> None, obj |-> NoDoc, feedback |-> NoEntry, fb |-> NoFeedback,
             resp |-> "none"]

DoneProc == [IdleProc EXCEPT !.pc = "done"]

NoResponse == [op |-> "none", req |-> NoRequest, caller |-> None, sid |-> None,
               obj |-> NoDoc, resp |-> "none", code |-> 0, detail |-> "", ret |-> NoDoc, items |-> <<>>]

\* ------------------------------------------------------------ the store
\* Indexes of the documents with this id, in collection order.
Matching(coll, id) == {i \in 1..Len(coll) : coll[i].id = id}

Min(S) == CHOOSE x \in S : \A y \in S : x <= y

\* db.sessions.find_one({"id": id})
FindOne(coll, id) ==
    IF Matching(coll, id) = {} THEN NoDoc ELSE coll[Min(Matching(coll, id))]

\* cursor.to_list(limit): at most `limit` documents, in collection order
ToList(s, limit) == IF Len(s) <= limit THEN s ELSE SubSeq(s, 1, limit)

\* Variant: the write stores the room and leaves the partner as it is.
UpdatePartnerRoomOnly(coll, id, partner, room) ==
    IF Matching(coll, id) = {} THEN coll
    ELSE [coll EXCEPT ![Min(Matching(coll, id))] = [@ EXCEPT !.room_url = room]]

\* Variant: the write of the partner moves the session to in_progress too.
UpdatePartnerStarts(coll, id, partner, room) ==
    IF Matching(coll, id) = {} THEN coll
    ELSE [coll EXCEPT ![Min(Matching(coll, id))] =
              [@ EXCEPT !.partner_id = partner, !.room_url = room, !.status = "in_progress"]]

\* db.sessions.update_one({"id": id}, {"$set": {partner_id, room_url}})
UpdatePartner(coll, id, partner, room) ==
    IF Matching(coll, id) = {} THEN coll
    ELSE [coll EXCEPT ![Min(Matching(coll, id))] =
              [@ EXCEPT !.partner_id = partner, !.room_url = room]]

\* db.sessions.update_one({"id": id}, {"$set": {"feedback": fb}})
UpdateFeedback(coll, id, fb) ==
    IF Matching(coll, id) = {} THEN coll
    ELSE [coll EXCEPT ![Min(Matching(coll, id))] = [@ EXCEPT !.feedback = fb]]

\* ------------------------------------------------------------ routing
\* The session routes of api_router in the order of their decorators.
Param == "{session_id}"
Routes == <<
    [method |-> "POST", path |-> <<"sessions">>, handler |-> "create_session"],
    [method |-> "GET", path |-> <<"sessions">>, handler |-> "get_user_sessions"],
    [method |-> "GET", path |-> <<"sessions", Param>>, handler |-> "get_session"],
    [method |-> "POST", path |-> <<"sessions", Param, "join">>, handler |-> "join_session"],
    [method |-> "GET", path |-> <<"sessions", "available">>, handler |-> "get_available_sessions"],
    [method |-> "POST", path |-> <<"sessions", Param, "feedback">>, handler |-> "submit_feedback"] >>

PathMatches(pattern, path) ==
    /\ Len(pattern) = Len(path)
    /\ \A k \in 1..Len(pattern) : pattern[k] = Param \/ pattern[k] = path[k]

FullMatches(method, path) ==
    {r \in 1..Len(Routes) : PathMatches(Routes[r].path, path) /\ Routes[r].method = method}

\* The router hands the request to the first route that matches in full.
Dispatch(method, path) ==
    IF FullMatches(method, path) # {} THEN Routes[Min(FullMatches(method, path))].handler
    ELSE "not_found"

\* The value bound to the path parameter session_id.
PathParam(path) == IF Len(path) >= 2 THEN path[2] ELSE None

Requests ==
    [method : {"GET", "POST"}, path : {<<"sessions">>}]
    \cup [method : {"GET"}, path : {<<"sessions", x>> : x \in PathIds}]
    \cup [method : {"POST"}, path : {<<"sessions", x, "join">> : x \in PathIds}]
    \cup [method : {"POST"}, path : {<<"sessions", x, "feedback">> : x \in PathIds}]

\* Variant: the creator is entered as the partner too.
NewSessionTaken(inp, caller, id, t) ==
    [id |-> id, host_id |-> caller, partner_id |-> caller, room_url |-> None,
     status |-> SCHEDULED, start_time |-> inp.start_time, end_time |-> inp.end_time,
     created_at |-> t, feedback |-> NoFeedback]

\* Session(**session.dict(), host_id=current_user.id).dict()
NewSession(inp, caller, id, t) ==
    [id |-> id, host_id |-> caller, partner_id |-> None, room_url |-> None,
     status |-> SCHEDULED, start_time |-> inp.start_time, end_time |-> inp.end_time,
     created_at |-> t, feedback |-> NoFeedback]

\* ------------------------------------------------------------ Init
Init ==
    /\ sessions = <<>>
    /\ proc = [p \in Procs |-> IdleProc]
    /\ last = NoResponse
    /\ joined = {}
    /\ posted = EmptyBag
    /\ now = 0
    /\ DAILY_API_KEY \in BOOLEAN

\* Call p arrives when every earlier call has arrived.
Arrives(p) ==
    /\ proc[p].pc = "idle"
    /\ \A q \in Procs : q < p => proc[q].pc # "idle"

\* The response of `call`: a status code with the detail of an HTTPException,
\* the Session returned, or the list returned.  It is tagged with the call it
\* answers: handler, request, caller and the session document the call read.
Response(call, code, detail, ret, items) ==
    [op |-> call.op, req |-> call.req, caller |-> call.caller, sid |-> call.sid,
     obj |-> call.obj, resp |-> call.resp, code |-> code, detail |-> detail, ret |-> ret, items |-> items]

\* A step that sends no response.
Silent == last' = NoResponse /\ UNCHANGED joined

\* Call p returns.
Returns(p, response) ==
    /\ proc' = [proc EXCEPT ![p] = DoneProc]
    /\ last' = response
    /\ joined' = IF response.op = "join_session" /\ response.code = HTTP_200_OK
                 THEN joined \cup {<<response.sid, response.caller>>}
                 ELSE joined

\* The requests the router hands to this handler.
Routed(handler) == {req \in Requests : Dispatch(req.method, req.path) = handler}

\* The handler called as a function, without the router.
DirectCall == [method |-> "call", path |-> <<>>]

\* Call p starts in `handler` for `caller` with request `req`.
Started(handler, caller, req) ==
    [IdleProc EXCEPT !.op = handler, !.pc = "start", !.req = req, !.caller = caller,
                     !.sid = PathParam(req.path)]

At(p, op, pc) == proc[p].op = op /\ proc[p].pc = pc

\* ------------------------------------------------------------ create
CreateSession(p) ==
    /\ Arrives(p)
    /\ Len(sessions) < MaxSessions
    /\ \E caller \in Users, req \in Routed("create_session"), inp \in CreateInputs :
         LET new_session == NewSession(inp, caller, Uuids[Len(sessions) + 1], now)
         IN /\ sessions' = Append(sessions, new_session)
            /\ Returns(p, Response(Started("create_session", caller, req), HTTP_200_OK,
                                    "", new_session, <<>>))
    /\ UNCHANGED <<posted, now, DAILY_API_KEY>>

\* ------------------------------------------------------------ list owned
OwnedFilter(doc, caller) == doc.host_id = caller \/ doc.partner_id = caller

GetUserSessions(p) ==
    /\ Arrives(p)
    /\ \E caller \in Users, req \in Routed("get_user_sessions") :
         LET Keep(doc) == OwnedFilter(doc, caller)
         IN Returns(p, Response(Started("get_user_sessions", caller, req), HTTP_200_OK, "",
                                NoDoc, ToList(SelectSeq(sessions, Keep), OwnedLimit)))
    /\ UNCHANGED <<sessions, posted, now, DAILY_API_KEY>>

\* ------------------------------------------------------------ get one
\* Variant: a session without a partner is open to every caller.
IsParticipantOrOpen(doc, caller) ==
    doc.host_id = caller \/ doc.partner_id = caller \/ doc.partner_id = None

\* session["host_id"] == current_user.id or session.get("partner_id") == current_user.id
IsParticipant(doc, caller) == doc.host_id = caller \/ doc.partner_id = caller

GetSession(p) ==
    /\ Arrives(p)
    /\ \E caller \in Users, req \in Routed("get_session") :
         LET session == FindOne(sessions, PathParam(req.path))
             call == [Started("get_session", caller, req) EXCEPT !.obj = session]
         IN Returns(p,
              IF session = NoDoc
              THEN Response(call, HTTP_404_NOT_FOUND, DetailNotFound, NoDoc, <<>>)
              ELSE IF ~IsParticipant(session, caller)
              THEN Response(call, HTTP_403_FORBIDDEN, DetailNoView, NoDoc, <<>>)
              ELSE Response(call, HTTP_200_OK, "", session, <<>>))
    /\ UNCHANGED <<sessions, posted, now, DAILY_API_KEY>>

\* ------------------------------------------------------------ join
\* Variant: the own-session check comes before the already-matched check.
JoinPrecheckHostFirst(session, caller) ==
    IF session = NoDoc
    THEN [code |-> HTTP_404_NOT_FOUND, detail |-> DetailNotFound]
    ELSE IF session.host_id = caller
    THEN [code |-> HTTP_400_BAD_REQUEST, detail |-> DetailOwnSession]
    ELSE IF session.partner_id # None
    THEN [code |-> HTTP_400_BAD_REQUEST, detail |-> DetailHasPartner]
    ELSE [code |-> 0, detail |-> ""]

\* Variant: the already-matched check is missing.
JoinPrecheckNoPartner(session, caller) ==
    IF session = NoDoc
    THEN [code |-> HTTP_404_NOT_FOUND, detail |-> DetailNotFound]
    ELSE IF session.host_id = caller
    THEN [code |-> HTTP_400_BAD_REQUEST, detail |-> DetailOwnSession]
    ELSE [code |-> 0, detail |-> ""]

\* Variant: the own-session check is missing.
JoinPrecheckNoHost(session, caller) ==
    IF session = NoDoc
    THEN [code |-> HTTP_404_NOT_FOUND, detail |-> DetailNotFound]
    ELSE IF session.partner_id # None
    THEN [code |-> HTTP_400_BAD_REQUEST, detail |-> DetailHasPartner]
    ELSE [code |-> 0, detail |-> ""]

\* The three checks after the read; code 0 lets the call go on.
JoinPrecheck(session, caller) ==
    IF session = NoDoc
    THEN [code |-> HTTP_404_NOT_FOUND, detail |-> DetailNotFound]
    ELSE IF session.partner_id # None
    THEN [code |-> HTTP_400_BAD_REQUEST, detail |-> DetailHasPartner]
    ELSE IF session.host_id = caller
    THEN [code |-> HTTP_400_BAD_REQUEST, detail |-> DetailOwnSession]
    ELSE [code |-> 0, detail |-> ""]

\* if not session_obj.room_url and DAILY_API_KEY
NeedsRoom(session_obj, key) == session_obj.room_url = None /\ key

\* datetime.timestamp(): seconds since the epoch.  A unit of model time is an
\* hour, and the clock of the model starts an hour after the epoch.
Timestamp(t) == HourSeconds * (t + 1)

\* expiry = int((end_time.timestamp() - utcnow().timestamp()) + 3600)
Expiry(session_obj, t) == (Timestamp(session_obj.end_time) - Timestamp(t)) + HourSeconds

\* The body of client.post(f"{DAILY_API_URL}/rooms", ...): name and properties.exp.
RoomRequest(session_id, session_obj, t) ==
    [name |-> session_id, exp |-> Expiry(session_obj, t)]

JoinRead(p) ==
    /\ Arrives(p)
    /\ \E caller \in Users, req \in Routed("join_session") :
         LET session == FindOne(sessions, PathParam(req.path))
             call == [Started("join_session", caller, req) EXCEPT !.obj = session]
             chk == JoinPrecheck(session, caller)
         IN IF chk.code # 0
            THEN /\ Returns(p, Response(call, chk.code, chk.detail, NoDoc, <<>>))
                 /\ UNCHANGED posted
            ELSE IF NeedsRoom(session, DAILY_API_KEY)
            THEN /\ \E fate \in {"pending", "silent"} :
                      proc' = [proc EXCEPT ![p] =
                                 [call EXCEPT !.pc = "j_provider", !.resp = fate]]
                 /\ posted' = posted (+) SetToBag({RoomRequest(call.sid, session, now)})
                 /\ Silent
            ELSE /\ proc' = [proc EXCEPT ![p] = [call EXCEPT !.pc = "j_write"]]
                 /\ UNCHANGED posted
                 /\ Silent
    /\ UNCHANGED <<sessions, now, DAILY_API_KEY>>

\* Variant: the url of the answer is taken whatever its status.
RoomAfterProviderAnyStatus(session_obj, resp, url) ==
    IF resp \in {"ok", "non200"} THEN url ELSE session_obj.room_url

\* session_obj.room_url after the try block, for each answer of the provider:
\* "ok" is status 200 with a url, "non200" any other status, "error" an
\* exception raised inside the block (connection failure, timeout, bad body).
RoomAfterProvider(session_obj, resp, url) ==
    IF resp = "ok" THEN url ELSE session_obj.room_url

\* Variant: the client waits for the provider without a time limit.
ProviderOutcomesNoTimeout(fate) ==
    IF fate = "silent" THEN {} ELSE {"ok", "non200", "error"}

\* The ways the await of client.post ends.  The request is "pending" when the
\* provider is going to answer it and "silent" when it never will: the
\* client of httpx.AsyncClient() has the default timeout, so the await of a
\* silent request ends with a timeout exception.
ProviderOutcomes(fate) ==
    IF fate = "silent" THEN {"error"} ELSE {"ok", "non200", "error"}

JoinProvider(p) ==
    /\ At(p, "join_session", "j_provider")
    /\ \E resp \in ProviderOutcomes(proc[p].resp), url \in ProviderUrls :
         proc' = [proc EXCEPT ![p].resp = resp, ![p].pc = "j_write",
                              ![p].obj = [@ EXCEPT !.room_url =
                                            RoomAfterProvider(proc[p].obj, resp, url)]]
    /\ Silent
    /\ UNCHANGED <<sessions, posted, now, DAILY_API_KEY>>

JoinWrite(p) ==
    /\ At(p, "join_session", "j_write")
    /\ sessions' = UpdatePartner(sessions, proc[p].sid, proc[p].caller, proc[p].obj.room_url)
    /\ proc' = [proc EXCEPT ![p].pc = "j_refresh"]
    /\ Silent
    /\ UNCHANGED <<posted, now, DAILY_API_KEY>>

JoinRefresh(p) ==
    /\ At(p, "join_session", "j_refresh")
    /\ Returns(p, Response(proc[p], HTTP_200_OK, "", FindOne(sessions, proc[p].sid), <<>>))
    /\ UNCHANGED <<sessions, posted, now, DAILY_API_KEY>>

\* ------------------------------------------------------------ list available
\* Variant: the query without its partner_id clause.
AvailableFilterAnyPartner(doc, caller, t) ==
    /\ doc.host_id # caller
    /\ doc.start_time > t
    /\ doc.status = SCHEDULED

\* The query of find(): partner_id null, host_id $ne caller, start_time $gt
\* utcnow(), status scheduled.
AvailableFilter(doc, caller, t) ==
    /\ doc.partner_id = None
    /\ doc.host_id # caller
    /\ doc.start_time > t
    /\ doc.status = SCHEDULED

\* datetime.isoformat() and the parse of the text by Session(**session)
\* (the text of a datetime is the one-element tuple of its value).
IsoFormat(t) == <<t>>
ParseDatetime(text) == text[1]

Convert(doc) ==
    [doc EXCEPT !.start_time = ParseDatetime(IsoFormat(@)),
                !.end_time = ParseDatetime(IsoFormat(@)),
                !.created_at = ParseDatetime(IsoFormat(@))]

Converted(docs) == [k \in 1..Len(docs) |-> Convert(docs[k])]

\* Variant: the list read so far is returned although the block has raised.
AvailableResultPartial(raised, found) == Converted(found)

\* The value returned: the converted list, or [] from the except branch when
\* the read or the conversion of a record has raised.
AvailableResult(raised, found) == IF raised THEN <<>> ELSE Converted(found)

\* No request reaches this handler through the router (see Dispatch), so the
\* operation is exercised by calling it directly as well.
GetAvailableSessions(p) ==
    /\ Arrives(p)
    /\ \E caller \in Users,
          req \in Routed("get_available_sessions") \cup {DirectCall},
          raised \in BOOLEAN :
         LET Keep(doc) == AvailableFilter(doc, caller, now)
             found == ToList(SelectSeq(sessions, Keep), AvailableLimit)
             call == [Started("get_available_sessions", caller, req)
                        EXCEPT !.resp = IF raised THEN "error" ELSE "ok"]
         IN Returns(p, Response(call, HTTP_200_OK, "", NoDoc,
                                AvailableResult(raised, found)))
    /\ UNCHANGED <<sessions, posted, now, DAILY_API_KEY>>

\* ------------------------------------------------------------ feedback
Role(session, caller) == IF session.host_id = caller THEN "host" ELSE "partner"

\* Variant: an entry already present for the role is kept.
PutFeedbackKeepFirst(mapping, user_role, entry) ==
    IF mapping[user_role] = NoEntry THEN [mapping EXCEPT ![user_role] = entry] ELSE mapping

\* session["feedback"][user_role] = feedback.dict()
PutFeedback(mapping, user_role, entry) == [mapping EXCEPT ![user_role] = entry]

FeedbackRead(p) ==
    /\ Arrives(p)
    /\ \E caller \in Users, req \in Routed("submit_feedback"), feedback \in FeedbackInputs :
         LET session == FindOne(sessions, PathParam(req.path))
             call == [Started("submit_feedback", caller, req) EXCEPT !.obj = session]
         IN IF session = NoDoc
            THEN Returns(p, Response(call, HTTP_404_NOT_FOUND, DetailNotFound, NoDoc, <<>>))
            ELSE IF ~IsParticipant(session, caller)
            THEN Returns(p, Response(call, HTTP_403_FORBIDDEN, DetailNoFeedback, NoDoc, <<>>))
            ELSE /\ proc' = [proc EXCEPT ![p] =
                      [call EXCEPT !.pc = "f_write",
                                   !.feedback = feedback,
                                   !.fb = PutFeedback(session.feedback,
                                                      Role(session, caller), feedback)]]
                 /\ Silent
    /\ UNCHANGED <<sessions, posted, now, DAILY_API_KEY>>

FeedbackWrite(p) ==
    /\ At(p, "submit_feedback", "f_write")
    /\ sessions' = UpdateFeedback(sessions, proc[p].sid, proc[p].fb)
    /\ proc' = [proc EXCEPT ![p].pc = "f_refresh"]
    /\ Silent
    /\ UNCHANGED <<posted, now, DAILY_API_KEY>>

FeedbackRefresh(p) ==
    /\ At(p, "submit_feedback", "f_refresh")
    /\ Returns(p, Response(proc[p], HTTP_200_OK, "", FindOne(sessions, proc[p].sid), <<>>))
    /\ UNCHANGED <<sessions, posted, now, DAILY_API_KEY>>

\* ------------------------------------------------------------ time
Tick ==
    /\ now < MaxTime
    /\ now' = now + 1
    /\ Silent
    /\ UNCHANGED <<sessions, proc, posted, DAILY_API_KEY>>

Next ==
    \/ \E p \in Procs : CreateSession(p)
    \/ \E p \in Procs : GetUserSessions(p)
    \/ \E p \in Procs : GetSession(p)
    \/ \E p \in Procs : JoinRead(p)
    \/ \E p \in Procs : JoinProvider(p)
    \/ \E p \in Procs : JoinWrite(p)
    \/ \E p \in Procs : JoinRefresh(p)
    \/ \E p \in Procs : GetAvailableSessions(p)
    \/ \E p \in Procs : FeedbackRead(p)
    \/ \E p \in Procs : FeedbackWrite(p)
    \/ \E p \in Procs : FeedbackRefresh(p)
    \/ Tick

Spec == Init /\ [][Next]_vars

\* The store after user a has created a session and user b has joined it,
\* both at time 0 and with every answer the provider can give; the calls are
\* numbered from there.
InitMatched ==
    /\ DAILY_API_KEY \in BOOLEAN
    /\ \E inp \in CreateInputs, resp \in {"ok", "non200", "error"}, url \in ProviderUrls :
         LET session == NewSession(inp, "a", Uuids[1], 0)
             room == IF DAILY_API_KEY THEN RoomAfterProvider(session, resp, url) ELSE None
         IN /\ sessions = UpdatePartner(<<session>>, session.id, "b", room)
            /\ posted = IF NeedsRoom(session, DAILY_API_KEY)
                        THEN SetToBag({RoomRequest(session.id, session, 0)})
                        ELSE EmptyBag
            /\ joined = {<<session.id, "b">>}
    /\ proc = [p \in Procs |-> IdleProc]
    /\ last = NoResponse
    /\ now = 0

SpecMatched == InitMatched /\ [][Next]_vars

\* The event loop resumes a coroutine whose awaited call has ended, and the
\* store answers every call: each step of a join in progress is taken once
\* it is possible.
JoinFairness ==
    \A p \in Procs :
        /\ WF_vars(JoinProvider(p))
        /\ WF_vars(JoinWrite(p))
        /\ WF_vars(JoinRefresh(p))

SpecLive == Init /\ [][Next]_vars /\ JoinFairness

\* uuid4() of the n-th Session constructed, for any n (Uuids[n] where defined).
Uuid(n) == "s" \o ToString(n)

\* The store after user a has created n sessions, for every n up to one more
\* than the limit of to_list in get_user_sessions, with or without a session
\* of user b after them.
InitOwned ==
    /\ \E n \in 0..(OwnedLimit + 1), inp \in CreateInputs, extra \in BOOLEAN :
         LET mine == [k \in 1..n |-> NewSession(inp, "a", Uuid(k), 0)]
         IN sessions = IF extra THEN Append(mine, NewSession(inp, "b", Uuid(n + 1), 0))
                       ELSE mine
    /\ proc = [p \in Procs |-> IdleProc]
    /\ last = NoResponse
    /\ joined = {}
    /\ posted = EmptyBag
    /\ now = 0
    /\ DAILY_API_KEY \in BOOLEAN

\* The calls of List Owned on such a store.
NextOwned == \E p \in Procs : GetUserSessions(p)

SpecOwned == InitOwned /\ [][NextOwned]_vars

\* ================================================================ properties
Sessions == {sessions[i] : i \in 1..Len(sessions)}

JoinSuccess(r) == r.op = "join_session" /\ r.code = HTTP_200_OK

\* C1: of the join calls on one session, whatever their interleaving, at most
\* one is answered with success; two callers are never both told that they
\* joined the same session.
C1_AtMostOneJoinSucceeds ==
    \A x \in joined, y \in joined : x[1] = y[1] => x[2] = y[2]

\* C2: partner_id is set at most once: once a session's partner_id is set, no
\* step changes it to another value or back to absent.
C2_PartnerSetOnce ==
    [][\A i \in 1..Len(sessions) :
          sessions[i].partner_id # None => sessions'[i].partner_id = sessions[i].partner_id]_vars

\* C3: room_url is immutable once set: once a session's room_url is set, no
\* step of a join or a feedback call changes it or resets it to absent.
C3_RoomUrlImmutable ==
    [][\A i \in 1..Len(sessions) :
          sessions[i].room_url # None => sessions'[i].room_url = sessions[i].room_url]_vars

AvailableRequest == [method |-> "GET", path |-> <<"sessions", "available">>]

\* C4: a GET request for /sessions/available is handled by List Available and
\* is answered 200 with a list, never by Get-one and never with 404.
C4_AvailableIsRouted ==
    last.req = AvailableRequest =>
        last.op = "get_available_sessions" /\ last.code = HTTP_200_OK

\* C7: a join answered with success returns a session whose partner_id is the
\* caller of that join, and the stored partner_id is that caller too.
C7_SuccessNamesCaller ==
    JoinSuccess(last) =>
        /\ last.ret.partner_id = last.caller
        /\ FindOne(sessions, last.sid).partner_id = last.caller

\* A join by the host of the session it names, the session existing.
HostJoin(r) == r.op = "join_session" /\ r.obj # NoDoc /\ r.obj.host_id = r.caller

\* C5 (as stated): a join by the host of an existing session is answered
\* InvalidOperation (cannot join own session), matched or not.
C5_HostJoinInvalidOperation ==
    HostJoin(last) =>
        last.code = HTTP_400_BAD_REQUEST /\ last.detail = DetailOwnSession

\* C5 (amended): a join by the host of an existing session is refused with
\* 400: InvalidOperation when the session it read had no partner, Conflict
\* (already matched) when it had one.
C5_HostJoinRefused ==
    HostJoin(last) =>
        /\ last.code = HTTP_400_BAD_REQUEST
        /\ last.detail = IF last.obj.partner_id = None
                         THEN DetailOwnSession ELSE DetailHasPartner

C5_Witness ==
    /\ HostJoin(last)
    /\ last.obj.partner_id # None
    /\ last.detail = DetailHasPartner

\* C6: a join that reads a session whose partner_id is set is answered
\* Conflict (already matched), whoever calls, the partner included, and the
\* step changes nothing in the store.
C6_MatchedSessionRefusesJoin ==
    [][(last'.op = "join_session" /\ last'.obj # NoDoc /\ last'.obj.partner_id # None)
         => /\ last'.code = HTTP_400_BAD_REQUEST
            /\ last'.detail = DetailHasPartner
            /\ sessions' = sessions]_vars

C6_Witness ==
    /\ last.op = "join_session"
    /\ last.detail = DetailHasPartner
    /\ last.obj.partner_id = last.caller
    /\ FindOne(sessions, last.sid) = last.obj

\* C8: a join that passed its checks and got no room from the provider
\* (not configured, status other than 200, or an exception) writes
\* partner_id = caller with room_url absent and is answered with success.
ProviderFailed(call) == call.resp # "ok"

C8_ProviderFailureNeverBlocks ==
    [][/\ \A p \in Procs :
            (At(p, "join_session", "j_write") /\ ProviderFailed(proc[p])
                /\ proc'[p] # proc[p])
            => /\ proc'[p].pc = "j_refresh"
               /\ FindOne(sessions', proc[p].sid).partner_id = proc[p].caller
               /\ FindOne(sessions', proc[p].sid).room_url = None
       /\ (last'.op = "join_session" /\ ProviderFailed(last') /\ last'.obj # NoDoc
             /\ last'.obj.partner_id = None /\ last'.obj.host_id # last'.caller)
            => last'.code = HTTP_200_OK]_vars

C8_Witness ==
    /\ JoinSuccess(last)
    /\ last.resp \in {"non200", "error"}
    /\ last.ret.partner_id = last.caller
    /\ last.ret.room_url = None

\* C9: create appends exactly one session to the store and returns it: host_id
\* is the caller, partner_id and room_url are absent, status is scheduled,
\* there is no feedback, the id is the id of no session already stored, and
\* the sessions already stored are unchanged.
C9_CreateInsertsFreshSession ==
    [][last'.op = "create_session"
         => /\ last'.code = HTTP_200_OK
            /\ sessions' = Append(sessions, last'.ret)
            /\ last'.ret.host_id = last'.caller
            /\ last'.ret.partner_id = None
            /\ last'.ret.room_url = None
            /\ last'.ret.status = SCHEDULED
            /\ last'.ret.feedback = NoFeedback
            /\ \A i \in 1..Len(sessions) : sessions[i].id # last'.ret.id]_vars

C9_Witness ==
    /\ last.op = "create_session"
    /\ Len(sessions) >= 2
    /\ last.ret = sessions[Len(sessions)]

\* C10: every session List Available returns is stored at the time of the
\* read with partner_id absent, a host other than the caller, start_time
\* after now and status scheduled.
C10_AvailableOnlyOpenSessions ==
    last.op = "get_available_sessions" =>
        \A k \in 1..Len(last.items) :
            LET item == last.items[k]
            IN /\ item \in Sessions
               /\ item.partner_id = None
               /\ item.host_id # last.caller
               /\ item.start_time > now
               /\ item.status = SCHEDULED

\* A matched session that the caller does not host and that lies in the
\* future is stored, and the list that comes back is empty.
C10_Witness ==
    /\ last.op = "get_available_sessions"
    /\ last.resp = "ok"
    /\ last.items = <<>>
    /\ \E d \in Sessions :
         d.partner_id # None /\ d.host_id # last.caller /\ d.start_time > now
\* C11: a feedback call on an unknown session id is answered NotFound, and a
\* feedback call by a caller who is neither the host nor the partner of the
\* stored session (so every caller but the host when it has no partner) is
\* answered Forbidden; both are decided on the stored document and change
\* nothing in the store.
C11_FeedbackOnlyFromParticipants ==
    [][last'.op = "submit_feedback"
         => /\ last'.code # HTTP_200_OK => last'.obj = FindOne(sessions, last'.sid)
            /\ last'.obj = NoDoc
                 => /\ last'.code = HTTP_404_NOT_FOUND
                    /\ last'.detail = DetailNotFound
                    /\ sessions' = sessions
            /\ (last'.obj # NoDoc /\ last'.obj.host_id # last'.caller
                   /\ last'.obj.partner_id # last'.caller)
                 => /\ last'.code = HTTP_403_FORBIDDEN
                    /\ last'.detail = DetailNoFeedback
                    /\ sessions' = sessions]_vars

\* A caller other than the host is refused on a session without a partner
\* that already carries feedback of its host.
C11_Witness ==
    /\ last.op = "submit_feedback"
    /\ last.code = HTTP_403_FORBIDDEN
    /\ last.obj.partner_id = None
    /\ last.obj.feedback # NoFeedback
    /\ FindOne(sessions, last.sid) = last.obj
\* The feedback call p does its store write in this step.
FeedbackWrites(p) == At(p, "submit_feedback", "f_write") /\ proc'[p].pc = "f_refresh"

\* C12: the mapping has one entry per role and the last write wins: right
\* after the write of a feedback call the entry of the caller's role (host if
\* caller = host_id, else partner) is the rating and comment of that call,
\* whatever entry the role had before; and a call that submits the entry its
\* role already has, nothing having been written since it read, leaves the
\* store as it was.
C12_FeedbackLastWriteWins ==
    [][\A p \in Procs :
          FeedbackWrites(p) =>
              LET user_role == Role(proc[p].obj, proc[p].caller)
                  before == FindOne(sessions, proc[p].sid).feedback
                  after == FindOne(sessions', proc[p].sid).feedback
              IN /\ user_role = IF proc[p].caller = proc[p].obj.host_id
                                THEN "host" ELSE "partner"
                 /\ after[user_role] = proc[p].feedback
                 /\ (before = proc[p].obj.feedback /\ before[user_role] = proc[p].feedback)
                      => sessions' = sessions]_vars

\* A second submission has just overwritten a different entry of the same role.
C12_Witness ==
    \E p \in Procs :
        /\ At(p, "submit_feedback", "f_refresh")
        /\ \A q \in Procs \ {p} : proc[q].pc \in {"idle", "done"}
        /\ LET user_role == Role(proc[p].obj, proc[p].caller)
           IN /\ proc[p].obj.feedback[user_role] \in FeedbackInputs \ {proc[p].feedback}
              /\ FindOne(sessions, proc[p].sid).feedback[user_role] = proc[p].feedback
OtherRole(user_role) == IF user_role = "host" THEN "partner" ELSE "host"

\* C13: the write of a feedback call leaves the entry of the other role as it
\* is stored, also when the calls of the host and of the partner interleave.
C13_FeedbackKeepsOtherRole ==
    [][\A p \in Procs :
          FeedbackWrites(p) =>
              LET other == OtherRole(Role(proc[p].obj, proc[p].caller))
              IN FindOne(sessions', proc[p].sid).feedback[other]
                   = FindOne(sessions, proc[p].sid).feedback[other]]_vars
Items(r) == {r.items[k] : k \in 1..Len(r.items)}

\* C14: List Owned returns every stored session whose host_id or partner_id
\* is the caller and no other session, however many there are, and leaves the
\* store as it is.
C14_ListOwnedComplete ==
    [][last'.op = "get_user_sessions"
         => /\ sessions' = sessions
            /\ Items(last') = {d \in Sessions : d.host_id = last'.caller
                                                 \/ d.partner_id = last'.caller}]_vars
\* C15: when the read of List Available or the conversion of a record raises,
\* the call is answered with success and an empty list, and the store is
\* left as it is.
C15_AvailableDegradesToEmpty ==
    [][(last'.op = "get_available_sessions" /\ last'.resp = "error")
         => /\ last'.code = HTTP_200_OK
            /\ last'.items = <<>>
            /\ sessions' = sessions]_vars

\* The read has failed while the store holds a session open to the caller.
C15_Witness ==
    /\ last.op = "get_available_sessions"
    /\ last.resp = "error"
    /\ last.items = <<>>
    /\ \E d \in Sessions : AvailableFilter(d, last.caller, now)
\* C16: in every reachable state, a stored session whose partner_id is set
\* has a partner_id other than its host_id.
C16_PartnerIsNotHost ==
    \A d \in Sessions : d.partner_id # None => d.partner_id # d.host_id

\* Two interleaved joins have both written the partner of one session.
C16_Witness ==
    /\ \E x \in joined, y \in joined : x[1] = y[1] /\ x[2] # y[2]
    /\ \E d \in Sessions : d.partner_id # None /\ d.partner_id # d.host_id
\* Call p arrives in this step as a join and goes on past its checks.
JoinPasses(p) == proc[p].pc = "idle" /\ proc'[p].op = "join_session"

\* C17: a join is refused on the stored session in a fixed order, each
\* failure with its own answer: NotFound when no session has the id, else
\* Conflict when partner_id is set, else InvalidOperation when the caller is
\* the host; a join goes on only when none of the three applies; and a
\* refused join writes nothing and posts no room-creation request.
C17_JoinPrecheckOrder ==
    [][/\ (last'.op = "join_session" /\ last'.code # HTTP_200_OK)
            => LET stored == FindOne(sessions, last'.sid)
               IN /\ last'.obj = stored
                  /\ <<last'.code, last'.detail>> =
                        IF stored = NoDoc
                        THEN <<HTTP_404_NOT_FOUND, DetailNotFound>>
                        ELSE IF stored.partner_id # None
                        THEN <<HTTP_400_BAD_REQUEST, DetailHasPartner>>
                        ELSE <<HTTP_400_BAD_REQUEST, DetailOwnSession>>
                  /\ (stored # NoDoc /\ stored.partner_id = None)
                       => stored.host_id = last'.caller
                  /\ sessions' = sessions
                  /\ posted' = posted
       /\ \A p \in Procs :
            JoinPasses(p)
            => LET stored == FindOne(sessions, proc'[p].sid)
               IN /\ stored # NoDoc
                  /\ stored.partner_id = None
                  /\ stored.host_id # proc'[p].caller
       /\ DetailNotFound # DetailHasPartner
       /\ DetailHasPartner # DetailOwnSession
       /\ DetailNotFound # DetailOwnSession]_vars

\* The host is refused on an open session that has no room, the provider
\* being configured, and no request has been posted.
C17_Witness ==
    /\ last.op = "join_session"
    /\ last.detail = DetailOwnSession
    /\ DAILY_API_KEY
    /\ last.obj.room_url = None
    /\ posted = EmptyBag
\* The number of room-creation requests posted so far for session `id`.
RequestsFor(id) ==
    LET named == {r \in BagToSet(posted) : r.name = id}
    IN BagCardinality([r \in named |-> posted[r]])

\* C18: for each session at most one room-creation request is ever posted to
\* the provider, whatever the interleaving of the joins on it.
C18_OneRoomRequestPerSession ==
    \A d \in Sessions : RequestsFor(d.id) <= 1
\* C19: the exp of every room-creation request posted is a time since the
\* epoch, in seconds, at least 3600 seconds after the end_time of the session
\* the request names.
C19_ExpiryPastEnd ==
    \A r \in BagToSet(posted) :
        r.exp >= Timestamp(FindOne(sessions, r.name).end_time) + HourSeconds
\* The join call p does its store write in this step.
JoinWrites(p) == At(p, "join_session", "j_write") /\ proc'[p].pc = "j_refresh"

\* C20: no step removes a session or changes the id, host_id, start_time,
\* end_time, created_at or status of a stored session; the write of a join
\* changes partner_id and room_url only, the write of a feedback call changes
\* the feedback mapping only, and every stored session has status scheduled.
C20_FrameOfWrites ==
    [][/\ Len(sessions') >= Len(sessions)
       /\ \A i \in 1..Len(sessions) :
            /\ sessions'[i].id = sessions[i].id
            /\ sessions'[i].host_id = sessions[i].host_id
            /\ sessions'[i].start_time = sessions[i].start_time
            /\ sessions'[i].end_time = sessions[i].end_time
            /\ sessions'[i].created_at = sessions[i].created_at
            /\ sessions'[i].status = sessions[i].status
            /\ (\E p \in Procs : JoinWrites(p))
                 => sessions'[i].feedback = sessions[i].feedback
            /\ (\E p \in Procs : FeedbackWrites(p))
                 => /\ sessions'[i].partner_id = sessions[i].partner_id
                    /\ sessions'[i].room_url = sessions[i].room_url
       /\ \A i \in 1..Len(sessions') : sessions'[i].status = SCHEDULED]_vars

\* A join has just written the partner of a session that carries feedback.
C20_Witness ==
    \E p \in Procs :
        /\ At(p, "join_session", "j_refresh")
        /\ LET stored == FindOne(sessions, proc[p].sid)
           IN /\ stored.partner_id = proc[p].caller
              /\ stored.feedback # NoFeedback
              /\ stored.status = SCHEDULED
              /\ stored.host_id = proc[p].obj.host_id
\* C21: every join call in progress, whoever calls and whatever the provider
\* does, the provider that never answers included, ends with a success
\* response for its caller and session (a refused join is answered in the
\* step of its read, see C17).
C21_JoinCompletes ==
    \A p \in Procs, c \in Users :
        (proc[p].op = "join_session" /\ proc[p].caller = c)
            ~> (proc[p].pc = "done" /\ JoinSuccess(last) /\ last.caller = c)

\* A join whose request the provider never answered has been answered with
\* success while another join was waiting for the provider.
C21_Witness ==
    /\ JoinSuccess(last)
    /\ last.resp = "error"
    /\ DAILY_API_KEY
    /\ \E q \in Procs : At(q, "join_session", "j_provider") /\ proc[q].resp = "silent"
\* C22: in every reachable state, a stored session whose room_url is set has
\* its partner_id set: no session without a partner carries a room url.
C22_RoomImpliesPartner ==
    \A d \in Sessions : d.room_url # None => d.partner_id # None

\* One session has a partner and a room, for which a request was posted,
\* while another session has neither.
C22_Witness ==
    /\ \E d \in Sessions :
         d.room_url \in ProviderUrls /\ d.partner_id \in Users /\ RequestsFor(d.id) >= 1
    /\ \E d \in Sessions : d.room_url = None /\ d.partner_id = None
====
